---- MODULE Spec2Model ----
(***************************************************************************)
(* Voice agent of the call-center backend.                                 *)
(*   backend/app/ai_agent.py     stt_turn_loop, run_ai_agent               *)
(*   backend/app/agent_worker.py entrypoint (greeting latch)               *)
(* Texts are sequences of string pieces: texts the code inspects are       *)
(* spelled one character per piece, fixed utterances are one piece.        *)
(***************************************************************************)
EXTENDS Integers, Sequences, FiniteSets, Bags, TLC

\* ---------------------------------------------------------------- bounds
MaxFrames == 4      \* inbound frames the transport delivers in one session
MaxClock == 6       \* seconds of a job that are followed
MaxTranscripts == 2 \* user_input_transcribed events delivered in one job
MaxCallbacks == 2   \* on_subscribed callbacks counted per publication
MaxCallFrames == 1  \* frames of the caller followed in a whole session
MaxTasks == 2       \* callback tasks pending when the room delivers an event
MaxSamples == 7     \* samples per channel of a decoded speech
MaxSipLegs == 2     \* SIP participants in a room at a time
MaxDispatches == 3  \* create_dispatch calls followed per room
MaxHandlers == 2    \* webhook handlers awaiting create_dispatch at a time

\* ------------------------------------------------------- program constants
WindowMs == 3000    \* window_ms
StreamRate == 16000 \* AudioStream.from_track(sample_rate=16000, ...)
StreamChannels == 1 \* AudioStream.from_track(..., num_channels=1)
FallbackSeconds == 4 \* ctx.sleep(4.0)
BootstrapSweeps == 5   \* for _ in range(5)
BackgroundSweeps == 20 \* for _ in range(20)

\* tr.text of the recognition service may be None
None == <<"None">>
\* Optional[int]: None is the empty sequence, n is <<n>>
Unset == <<>>
Some(n) == <<n>>

VARIABLES
    \* ---- stt_turn_loop locals
    pc,           \* position of the stt_turn_loop coroutine
    outcome,      \* "running" | "returned" | "raised"
    history,      \* List[Dict[str,str]]
    sample_rate,  \* Optional[int]
    channels,     \* Optional[int]
    window_ms,
    pcm_buf,      \* bytearray, as the sequence of the frame ids it holds
    text,         \* result of transcribe_pcm_chunk
    \* ---- the AudioStream of the remote track
    inbound,      \* frames queued in astream, not yet consumed
    delivered,    \* number of frames the transport has delivered
    eof,          \* the stream has ended on the transport side
    closed,       \* astream.aclose() was called
    \* ---- observations of the calls the loop makes
    total_ms,     \* sum of duration_ms over the frames consumed
    exact,        \* every window so far closed on window_ms = 0 exactly
    handed,       \* the buffers handed to transcribe_pcm_chunk, in order
    inflight,     \* windows whose transcribe/reply/speak cycle is running
    completed,    \* number of windows whose cycle has ended
    llm_calls,    \* the (prompt, history) pairs passed to converse
    spoken,       \* the texts passed to speak by the loop
    failed,       \* a service call of the loop has raised
    \* ---- agent_worker.entrypoint
    epc,          \* position of the entrypoint coroutine
    environ,      \* the required environment variables that are set
    greeted,      \* greeted["sent"]
    fpc,          \* position of the _fallback task
    clock,        \* seconds since the job started
    armed_at,     \* clock when _fallback went to sleep
    greetings,    \* the triggers that called session.generate_reply, in order
    reply_tasks,  \* generate_reply tasks of the handler still running
    finals,       \* clock of each final user transcript delivered
    transcripts,  \* number of user_input_transcribed events delivered
    \* ---- the room, as run_ai_agent sees it
    present,      \* room.remote_participants
    published,    \* the track publications of the participants present
    sub_state,    \* per publication: "no" | "requested" | "subscribed"
    callbacks,    \* per publication: on_subscribed callbacks registered
    connected,    \* the room connection is up
    reported,     \* the room has reported disconnection
    has_on_subscribed, \* publications offer on_subscribed
    async_subscribe,   \* pub.set_subscribed returns a coroutine
    \* ---- run_ai_agent
    mpc,          \* position of the run_ai_agent coroutine
    boot_i,       \* iterations of the bootstrap loop that have slept
    boot_sweeps,  \* _sweep_and_subscribe_all calls of the bootstrap loop
    msweep,       \* the _sweep_and_subscribe_all call of run_ai_agent
    handlers,     \* the room callbacks registered: on_track_published, ...
    done,         \* done (asyncio.Event)
    greet_calls,  \* calls of speak(room, "Hello! ...")
    started,      \* started (asyncio.Event)
    loop_tasks,   \* stt_turn_loop tasks created
    feeding,      \* the publications whose track was given to a stt_turn_loop
    tasks,        \* tasks created by the callbacks, not yet finished (a bag)
    \* ---- _background_sweeper
    bpc,          \* position of the _background_sweeper task
    bg_i,         \* iterations of its loop that have slept
    bg_sweeps,    \* _sweep_and_subscribe_all calls of _background_sweeper
    bsweep,       \* its _sweep_and_subscribe_all call
    warned,       \* times the "no remote audio" warning was printed
    \* ---- one call of speak
    spk,          \* position of the speak coroutine
    tts_calls,    \* the client.audio.speech.create calls made, in order
    sr,           \* sample rate of the decoded audio
    data_len,     \* len(data): samples per channel of the decoded audio
    chunk_i,      \* i of the pacer loop
    frames,       \* the frames given to source.capture_frame, in order: where
                  \* the chunk starts in data, its length, when it was given
    now,          \* milliseconds slept by the pacer so far
    agent_tracks, \* "agent-tts" tracks this call has published in the room
    \* ---- the failures of one sweep followed on its own
    fail_call,    \* publications whose set_subscribed(True) raises when called
    fail_await,   \* publications whose set_subscribed(True) raises when awaited
    \* ---- main.py: the webhook handler, its database, the LiveKit server
    calls,        \* per room: status of its Call row, "none" without a row
    active_ai_tasks,   \* the keys of active_ai_tasks
    dispatches,   \* per room: create_dispatch calls made
    awaiting_dispatch, \* handlers suspended in await create_dispatch
    lk_rooms,     \* per room, on the server: "none" | "live" | "finished"
    sip_legs      \* per room, on the server: SIP participants in the room

turnRest == <<outcome, history, sample_rate, channels, window_ms, pcm_buf,
              text, inbound, delivered, eof, closed, total_ms, exact, handed,
              inflight, completed, llm_calls, spoken, failed>>

turnVars == <<pc, outcome, history, sample_rate, channels, window_ms, pcm_buf,
              text, inbound, delivered, eof, closed, total_ms, exact, handed,
              inflight, completed, llm_calls, spoken, failed>>

greetVars == <<epc, environ, greeted, fpc, clock, armed_at, greetings,
               reply_tasks, finals, transcripts>>

roomVars == <<present, published, sub_state, callbacks, connected, reported,
              has_on_subscribed, async_subscribe>>
mainVars == <<mpc, boot_i, boot_sweeps, msweep, handlers, done, greet_calls>>
startVars == <<started, loop_tasks, feeding>>
bgVars == <<bpc, bg_i, bg_sweeps, bsweep, warned>>
agentVars == <<roomVars, mainVars, startVars, tasks, bgVars>>

speakVars == <<spk, tts_calls, sr, data_len, chunk_i, frames, now, agent_tracks>>

faultVars == <<fail_call, fail_await>>

webVars == <<calls, active_ai_tasks, dispatches, awaiting_dispatch, lk_rooms,
            sip_legs>>

nonTurnVars == <<greetVars, agentVars, speakVars, faultVars, webVars>>
nonGreetVars == <<turnVars, agentVars, speakVars, faultVars, webVars>>
nonAgentVars == <<greetVars, turnRest, speakVars, faultVars, webVars>>
nonSpeakVars == <<turnVars, greetVars, agentVars, faultVars, webVars>>
nonWebVars == <<turnVars, greetVars, agentVars, speakVars, faultVars>>

vars == <<turnVars, greetVars, agentVars, speakVars, faultVars, webVars>>

\* ------------------------------------------------------------------ texts
Upper == <<"A","B","C","D","E","F","G","H","I","J","K","L","M",
           "N","O","P","Q","R","S","T","U","V","W","X","Y","Z">>
Lower == <<"a","b","c","d","e","f","g","h","i","j","k","l","m",
           "n","o","p","q","r","s","t","u","v","w","x","y","z">>
Whitespace == {" ", "\n", "\t"}

\* str.lower() on one character
LowerChar(c) ==
    IF \E i \in 1..26 : Upper[i] = c
    THEN Lower[CHOOSE i \in 1..26 : Upper[i] = c]
    ELSE c

\* str.lower()
StrLower(s) == [i \in 1..Len(s) |-> LowerChar(s[i])]

\* str.strip()
RECURSIVE LStrip(_)
LStrip(s) == IF s # <<>> /\ Head(s) \in Whitespace THEN LStrip(Tail(s)) ELSE s
RECURSIVE RStrip(_)
RStrip(s) ==
    IF s # <<>> /\ s[Len(s)] \in Whitespace
    THEN RStrip(SubSeq(s, 1, Len(s) - 1))
    ELSE s
Strip(s) == RStrip(LStrip(s))

\* k in s
Contains(s, k) ==
    \E i \in 1..(Len(s) - Len(k) + 1) : SubSeq(s, i, i + Len(k) - 1) = k

Keywords == { <<"a","g","e","n","t">>,
              <<"h","u","m","a","n">>,
              <<"r","e","p","r","e","s","e","n","t","a","t","i","v","e">>,
              <<"o","p","e","r","a","t","o","r">> }

\* any(k in text.lower() for k in (...))
IsHandoffAlt(t) == \E k \in Keywords : Contains(t, k)
IsHandoff(t) == \E k \in Keywords : Contains(StrLower(t), k)

HandoffAck == <<"Okay, connecting you to a human agent.">>

\* (tr.text or "").strip()
TranscriptText(raw) == IF raw = None THEN <<>> ELSE Strip(raw)

\* what the recognition service may answer (tr.text)
RawTexts ==
    { None,
      <<>>,
      <<" ", "\n">>,
      <<" ","A","l","e","x","\n">>,
      <<"a"," ","H","U","M","A","N">>,
      <<"h","u","m","a","n","o","i","d">>,
      <<"A","g","e","n","t","!">>,
      <<"O","p","e","r","a","t","o","r"," ">>,
      <<"r","e","p","r","e","s","e","n","t","a","t","i","v","e">> }

\* what the generation service may answer
Replies == { <<"o","k">>, <<"w","h","e","n","?">> }

\* ----------------------------------------------------------------- frames
\* the (samples_per_channel) values of the frames the stream may deliver
FrameSamples == {8, 24008, 32000, 48000}

Frame(n, spc) ==
    [id |-> n, samples_per_channel |-> spc,
     sample_rate |-> StreamRate, num_channels |-> StreamChannels]

\* int(1000 * frame.samples_per_channel / frame.sample_rate)
DurationMs(f) == (1000 * f.samples_per_channel) \div f.sample_rate

\* the test of line 134, negated: "if window_ms > 0: continue"
WindowCompleteAlt(left) == left < 0
WindowComplete(left) == ~(left > 0)

\* "if not text" of line 140
IsEmptyTextAlt(t) == FALSE
IsEmptyText(t) == t = <<>>

Turn(role, content) == [role |-> role, content |-> content]

\* ------------------------------------------------------------------- Init
RequiredEnv == {"LIVEKIT_URL", "LIVEKIT_API_KEY", "LIVEKIT_API_SECRET", "OPENAI_API_KEY"}

\* the greeting job before entrypoint runs
GreetIdle ==
    /\ epc = "check_env"
    /\ greeted = FALSE
    /\ fpc = "none"
    /\ clock = 0
    /\ armed_at = 0
    /\ greetings = <<>>
    /\ reply_tasks = 0
    /\ finals = <<>>
    /\ transcripts = 0

\* the remote participants that may join, in the order of remote_participants,
\* and the publications they may make, in the order of track_publications
Participants == <<"sip", "web">>
Pubs == <<"a1", "a2", "v1">>
PubOwner == [a1 |-> "sip", a2 |-> "web", v1 |-> "web"]
PubKind == [a1 |-> "audio", a2 |-> "audio", v1 |-> "video"]
PubSet == {Pubs[i] : i \in 1..Len(Pubs)}
ParticipantSet == {Participants[i] : i \in 1..Len(Participants)}
AudioPubs == {q \in PubSet : PubKind[q] = "audio"}

\* a _sweep_and_subscribe_all or _subscribe_pub call: the publications it has
\* still to handle, and whether it awaits set_subscribed for the first of them
Sweep(todo) == [kind |-> "sweep", todo |-> todo, awaiting |-> FALSE]

\* no failure is fixed beforehand: where set_subscribed raises is chosen at
\* each step
NoFaults == fail_call = {} /\ fail_await = {}

\* the rooms the LiveKit server may open
Rooms == {"room1", "room2"}

\* the backend has just started: no Call row, no webhook received
WebIdle ==
    /\ calls = [rm \in Rooms |-> "none"]
    /\ active_ai_tasks = {}
    /\ dispatches = [rm \in Rooms |-> 0]
    /\ awaiting_dispatch = 0
    /\ lk_rooms = [rm \in Rooms |-> "none"]
    /\ sip_legs = [rm \in Rooms |-> 0]

\* run_ai_agent before room.connect, in an empty room
AgentIdle ==
    /\ present = {}
    /\ published = {}
    /\ sub_state = [p \in PubSet |-> "no"]
    /\ callbacks = [p \in PubSet |-> 0]
    /\ connected = FALSE
    /\ reported = FALSE
    /\ mpc = "connect"
    /\ boot_i = 0
    /\ boot_sweeps = 0
    /\ msweep = Sweep(<<>>)
    /\ handlers = {}
    /\ done = FALSE
    /\ greet_calls = 0
    /\ started = FALSE
    /\ loop_tasks = 0
    /\ feeding = {}
    /\ tasks = EmptyBag
    /\ bpc = "none"
    /\ bg_i = 0
    /\ bg_sweeps = 0
    /\ bsweep = Sweep(<<>>)
    /\ warned = 0

\* speak has not been called
SpeakLocals ==
    /\ tts_calls = <<>>
    /\ chunk_i = 0
    /\ frames = <<>>
    /\ now = 0
    /\ agent_tracks = 0

SpeakIdle == spk = "idle" /\ sr = 0 /\ data_len = 0 /\ SpeakLocals

\* the locals of stt_turn_loop as it enters its try block
TurnLocals ==
    /\ outcome = "running"
    /\ history = <<>>
    /\ sample_rate = Unset
    /\ channels = Unset
    /\ window_ms = WindowMs
    /\ pcm_buf = <<>>
    /\ text = <<>>
    /\ inbound = <<>>
    /\ delivered = 0
    /\ eof = FALSE
    /\ closed = FALSE
    /\ total_ms = 0
    /\ exact = TRUE
    /\ handed = <<>>
    /\ inflight = {}
    /\ completed = 0
    /\ llm_calls = <<>>
    /\ spoken = <<>>
    /\ failed = FALSE

\* the turn loop on its own: the task has just been created
TurnIdle == pc = "next" /\ TurnLocals

InitTurn ==
    /\ TurnIdle
    /\ GreetIdle /\ environ = RequiredEnv
    /\ SpeakIdle
    /\ NoFaults
    /\ WebIdle
    /\ AgentIdle /\ has_on_subscribed = TRUE /\ async_subscribe = FALSE

\* --------------------------------------------------------- the transport
\* the room transport queues one more frame of the remote track
FrameArrivesOf(max, samples) ==
    /\ ~eof /\ ~closed
    /\ delivered < max
    /\ \E spc \in samples :
         inbound' = Append(inbound, Frame(delivered + 1, spc))
    /\ delivered' = delivered + 1
    /\ UNCHANGED <<pc, outcome, history, sample_rate, channels, window_ms,
                   pcm_buf, text, eof, closed, total_ms, exact, handed,
                   inflight, completed, llm_calls, spoken, failed>>
    /\ UNCHANGED nonTurnVars

FrameArrives == FrameArrivesOf(MaxFrames, FrameSamples)

\* the remote track ends (the caller leaves, the room disconnects)
StreamEnds ==
    /\ pc # "unstarted"
    /\ ~eof /\ ~closed
    /\ eof' = TRUE
    /\ UNCHANGED <<pc, outcome, history, sample_rate, channels, window_ms,
                   pcm_buf, text, inbound, delivered, closed, total_ms, exact,
                   handed, inflight, completed, llm_calls, spoken, failed>>
    /\ UNCHANGED nonTurnVars

\* ---------------------------------------------------------- stt_turn_loop
\* where the loop is after it has handed a window to transcribe_pcm_chunk:
\* it awaits the call
AfterHandOffAlt == "next"
AfterHandOff == "transcribe"

\* the exception leaves the try block: finally closes the stream, the task ends
Raise ==
    /\ pc' = "done"
    /\ outcome' = "raised"
    /\ closed' = TRUE
    /\ failed' = TRUE
    /\ completed' = completed + Cardinality(inflight)
    /\ inflight' = {}

\* pcm_buf.extend(frame.data), line 130
ExtendBufAlt(buf, frame) == <<frame.id>>
ExtendBuf(buf, frame) == Append(buf, frame.id)

\* async for ev in astream: one frame, lines 125-138
NextFrame ==
    /\ pc = "next"
    /\ inbound # <<>>
    /\ LET frame == Head(inbound)
           buf == ExtendBuf(pcm_buf, frame)
           left == window_ms - DurationMs(frame)
       IN /\ inbound' = Tail(inbound)
          /\ sample_rate' = IF sample_rate = Unset THEN Some(frame.sample_rate) ELSE sample_rate
          /\ channels' = IF sample_rate = Unset THEN Some(frame.num_channels) ELSE channels
          /\ pcm_buf' = buf
          /\ total_ms' = total_ms + DurationMs(frame)
          /\ IF ~WindowComplete(left)
             THEN /\ window_ms' = left
                  /\ UNCHANGED <<pc, handed, inflight, exact>>
             ELSE /\ window_ms' = WindowMs
                  /\ pc' = AfterHandOff
                  /\ handed' = Append(handed, buf)
                  /\ inflight' = inflight \cup {Len(handed) + 1}
                  /\ exact' = (exact /\ left = 0)
    /\ UNCHANGED <<outcome, history, text, delivered, eof, closed, completed,
                   llm_calls, spoken, failed>>
    /\ UNCHANGED nonTurnVars

\* async for: the stream is exhausted, the loop ends, finally closes the stream
StreamExhausted ==
    /\ pc = "next"
    /\ inbound = <<>>
    /\ eof
    /\ pc' = "done"
    /\ outcome' = "returned"
    /\ closed' = TRUE
    /\ UNCHANGED <<history, sample_rate, channels, window_ms, pcm_buf, text,
                   inbound, delivered, eof, total_ms, exact, handed, inflight,
                   completed, llm_calls, spoken, failed>>
    /\ UNCHANGED nonTurnVars

\* transcribe_pcm_chunk returns, lines 138-148
TranscribeReturnsOf(raws) ==
    /\ pc = "transcribe"
    /\ \E raw \in raws :
         LET t == TranscriptText(raw) IN
         /\ text' = t
         /\ pcm_buf' = <<>>
         /\ IF IsEmptyText(t)
            THEN /\ pc' = "next"
                 /\ completed' = completed + 1
                 /\ inflight' = {}
                 /\ UNCHANGED <<llm_calls, spoken>>
            ELSE IF IsHandoff(t)
            THEN /\ pc' = "handoff_speak"
                 /\ spoken' = Append(spoken, HandoffAck)
                 /\ UNCHANGED <<llm_calls, completed, inflight>>
            ELSE /\ pc' = "converse"
                 /\ llm_calls' = Append(llm_calls, [prompt |-> t, history |-> history])
                 /\ UNCHANGED <<spoken, completed, inflight>>
    /\ UNCHANGED <<outcome, history, sample_rate, channels, window_ms, inbound,
                   delivered, eof, closed, total_ms, exact, handed, failed>>
    /\ UNCHANGED nonTurnVars

TranscribeReturns == TranscribeReturnsOf(RawTexts)

\* transcribe_pcm_chunk raises
TranscribeFails ==
    /\ pc = "transcribe"
    /\ Raise
    /\ UNCHANGED <<history, sample_rate, channels, window_ms, pcm_buf, text,
                   inbound, delivered, eof, total_ms, exact, handed, llm_calls,
                   spoken>>
    /\ UNCHANGED nonTurnVars

\* history += [...] of line 149
AppendTurnsAlt(h, t, r) == <<Turn("user", t), Turn("assistant", r)>> \o h
AppendTurns(h, t, r) == h \o <<Turn("user", t), Turn("assistant", r)>>

\* converse returns, lines 148-151
ConverseReturns ==
    /\ pc = "converse"
    /\ \E r \in Replies :
         /\ history' = AppendTurns(history, text, r)
         /\ spoken' = Append(spoken, r)
    /\ pc' = "speak"
    /\ UNCHANGED <<outcome, sample_rate, channels, window_ms, pcm_buf, text,
                   inbound, delivered, eof, closed, total_ms, exact, handed,
                   inflight, completed, llm_calls, failed>>
    /\ UNCHANGED nonTurnVars

\* converse raises
ConverseFails ==
    /\ pc = "converse"
    /\ Raise
    /\ UNCHANGED <<history, sample_rate, channels, window_ms, pcm_buf, text,
                   inbound, delivered, eof, total_ms, exact, handed, llm_calls,
                   spoken>>
    /\ UNCHANGED nonTurnVars

\* speak(room, reply) returns: back to the async for
SpeakReturns ==
    /\ pc = "speak"
    /\ pc' = "next"
    /\ completed' = completed + 1
    /\ inflight' = {}
    /\ UNCHANGED <<outcome, history, sample_rate, channels, window_ms, pcm_buf,
                   text, inbound, delivered, eof, closed, total_ms, exact,
                   handed, llm_calls, spoken, failed>>
    /\ UNCHANGED nonTurnVars

\* speak(room, "Okay, ...") returns: break, finally closes the stream
HandoffSpeakReturns ==
    /\ pc = "handoff_speak"
    /\ pc' = "done"
    /\ outcome' = "returned"
    /\ closed' = TRUE
    /\ completed' = completed + 1
    /\ inflight' = {}
    /\ UNCHANGED <<history, sample_rate, channels, window_ms, pcm_buf, text,
                   inbound, delivered, eof, total_ms, exact, handed, llm_calls,
                   spoken, failed>>
    /\ UNCHANGED nonTurnVars

\* either speak call raises
SpeakFails ==
    /\ pc \in {"speak", "handoff_speak"}
    /\ Raise
    /\ UNCHANGED <<history, sample_rate, channels, window_ms, pcm_buf, text,
                   inbound, delivered, eof, total_ms, exact, handed, llm_calls,
                   spoken>>
    /\ UNCHANGED nonTurnVars

NextTurn ==
    \/ FrameArrives
    \/ StreamEnds
    \/ NextFrame
    \/ StreamExhausted
    \/ TranscribeReturns
    \/ TranscribeFails
    \/ ConverseReturns
    \/ ConverseFails
    \/ SpeakReturns
    \/ HandoffSpeakReturns
    \/ SpeakFails

SpecTurn == InitTurn /\ [][NextTurn]_vars

\* ================================================= agent_worker.entrypoint
\* the test "not greeted['sent']" of _fallback, line 68
FallbackMayGreetAlt(sent) == TRUE
FallbackMayGreet(sent) == ~sent

\* the test of _on_user_transcribed, line 58
HandlerMayGreet(sent, is_final) == ~sent /\ is_final

\* lines 31-33: a required environment variable is missing: RuntimeError
CheckEnv ==
    /\ epc = "check_env"
    /\ epc' = IF environ = RequiredEnv THEN "connect" ELSE "raised"
    /\ UNCHANGED <<environ, greeted, fpc, clock, armed_at, greetings,
                   reply_tasks, finals, transcripts>>
    /\ UNCHANGED nonGreetVars

\* lines 36-51: ctx.connect and session.start; either may raise
ConnectAndStart ==
    /\ epc \in {"connect", "start"}
    /\ \E ok \in BOOLEAN :
         epc' = IF ~ok THEN "raised" ELSE IF epc = "connect" THEN "start" ELSE "arm"
    /\ UNCHANGED <<environ, greeted, fpc, clock, armed_at, greetings,
                   reply_tasks, finals, transcripts>>
    /\ UNCHANGED nonGreetVars

\* lines 54-74: the latch, the handler and the _fallback task are set up and
\* entrypoint returns; _fallback starts its ctx.sleep(4.0)
Arm ==
    /\ epc = "arm"
    /\ epc' = "armed"
    /\ greeted' = FALSE
    /\ fpc' = "sleeping"
    /\ armed_at' = clock
    /\ UNCHANGED <<environ, clock, greetings, reply_tasks, finals, transcripts>>
    /\ UNCHANGED nonGreetVars

\* one second passes
Tick ==
    /\ clock < MaxClock
    /\ clock' = clock + 1
    /\ UNCHANGED <<epc, environ, greeted, fpc, armed_at, greetings,
                   reply_tasks, finals, transcripts>>
    /\ UNCHANGED nonGreetVars

\* _on_user_transcribed(ev), lines 57-63
OnUserTranscribed ==
    /\ epc = "armed"
    /\ transcripts < MaxTranscripts
    /\ transcripts' = transcripts + 1
    /\ \E is_final \in BOOLEAN :
         /\ finals' = IF is_final THEN Append(finals, clock) ELSE finals
         /\ IF HandlerMayGreet(greeted, is_final)
            THEN /\ greeted' = TRUE
                 /\ greetings' = Append(greetings, "transcript")
                 /\ reply_tasks' = reply_tasks + 1
            ELSE UNCHANGED <<greeted, greetings, reply_tasks>>
    /\ UNCHANGED <<epc, environ, fpc, clock, armed_at>>
    /\ UNCHANGED nonGreetVars

\* _fallback after its sleep, lines 68-73
FallbackWakes ==
    /\ fpc = "sleeping"
    /\ clock >= armed_at + FallbackSeconds
    /\ IF FallbackMayGreet(greeted)
       THEN /\ greeted' = TRUE
            /\ greetings' = Append(greetings, "timer")
            /\ fpc' = "replying"
       ELSE /\ fpc' = "done"
            /\ UNCHANGED <<greeted, greetings>>
    /\ UNCHANGED <<epc, environ, clock, armed_at, reply_tasks, finals, transcripts>>
    /\ UNCHANGED nonGreetVars

\* session.generate_reply awaited by _fallback returns or raises
FallbackReplyEnds ==
    /\ fpc = "replying"
    /\ fpc' = "done"
    /\ UNCHANGED <<epc, environ, greeted, clock, armed_at, greetings,
                   reply_tasks, finals, transcripts>>
    /\ UNCHANGED nonGreetVars

\* the generate_reply task created by the handler ends
HandlerReplyEnds ==
    /\ reply_tasks > 0
    /\ reply_tasks' = reply_tasks - 1
    /\ UNCHANGED <<epc, environ, greeted, fpc, clock, armed_at, greetings,
                   finals, transcripts>>
    /\ UNCHANGED nonGreetVars

InitGreet ==
    /\ GreetIdle /\ environ \in SUBSET RequiredEnv
    /\ SpeakIdle
    /\ NoFaults
    /\ WebIdle
    /\ TurnIdle
    /\ AgentIdle /\ has_on_subscribed = TRUE /\ async_subscribe = FALSE

NextGreet ==
    \/ CheckEnv
    \/ ConnectAndStart
    \/ Arm
    \/ Tick
    \/ OnUserTranscribed
    \/ FallbackWakes
    \/ FallbackReplyEnds
    \/ HandlerReplyEnds

SpecGreet == InitGreet /\ [][NextGreet]_vars

\* ----------------------------------------------------- claims, SpecGreet
\* C2: the greeting is sent exactly once: the first of the two triggers (a final
\* user transcript, the 4 s fallback) sets the latch and sends it, the other one
\* sends nothing, in either order, also when the final transcript comes just
\* after the timer.
C2_GreetingExactlyOnce ==
    /\ [](/\ Len(greetings) = (IF greeted THEN 1 ELSE 0)
          /\ fpc \in {"replying", "done"} => Len(greetings) = 1
          /\ finals # <<>> => Len(greetings) = 1)
    /\ [][greeted => (greeted' /\ greetings' = greetings)]_vars

C2_Witness ==
    /\ greetings = <<"timer">>
    /\ fpc = "done"
    /\ \E i \in 1..Len(finals) : finals[i] > armed_at + FallbackSeconds

\* ============================================================ run_ai_agent
\* A coroutine runs from where it is to its next suspension in one step, as the
\* event loop runs it. What _subscribe_pub and _start_if_audio_track read and
\* write is passed along as a record and stored when the step ends.
Acq == [sub |-> sub_state, cb |-> callbacks, started |-> started,
        loops |-> loop_tasks, feeding |-> feeding]

Store(a) ==
    /\ sub_state' = a.sub
    /\ callbacks' = a.cb
    /\ started' = a.started
    /\ loop_tasks' = a.loops
    /\ feeding' = a.feeding
    /\ pc' = IF pc = "unstarted" /\ a.loops > 0 THEN "next" ELSE pc

Min(x, y) == IF x < y THEN x ELSE y

\* isinstance(track, rtc.RemoteAudioTrack) for the track of a publication
IsRemoteAudioTrack(pub) == PubKind[pub] = "audio"

\* the tests of _start_if_audio_track, lines 179-181
CanStartAlt(is_set, pub) == IsRemoteAudioTrack(pub)
CanStart(is_set, pub) == ~is_set /\ IsRemoteAudioTrack(pub)

\* _start_if_audio_track(track, participant), lines 178-184
StartIfAudioTrack(a, pub) ==
    IF CanStart(a.started, pub)
    THEN [a EXCEPT !.started = TRUE, !.loops = @ + 1, !.feeding = @ \cup {pub}]
    ELSE a

\* the end of _subscribe_pub, lines 207-212: the on_subscribed callback is
\* registered or, if the publication has no on_subscribed, its track is used
RegisterOnSubscribed(a, pub) ==
    IF has_on_subscribed
    THEN [a EXCEPT !.cb[pub] = Min(@ + 1, MaxCallbacks)]
    ELSE IF a.sub[pub] = "subscribed" THEN StartIfAudioTrack(a, pub) ELSE a

\* _subscribe_pub(pub, participant), lines 186-212, from its start or, when it
\* was awaiting set_subscribed, from there, up to its next suspension or its
\* return. raising: the publications whose set_subscribed raises, when it is
\* called or when its result is awaited (lines 199-205: logged, return).
SubscribePub(a, pub, awaiting, raising) ==
    IF awaiting
    THEN [a |-> IF pub \in raising THEN a ELSE RegisterOnSubscribed(a, pub),
          suspended |-> FALSE]
    ELSE IF PubKind[pub] # "audio"
    THEN [a |-> a, suspended |-> FALSE]
    ELSE IF a.sub[pub] = "subscribed"
    THEN [a |-> StartIfAudioTrack(a, pub), suspended |-> FALSE]
    ELSE IF pub \in raising
    THEN [a |-> a, suspended |-> FALSE]
    ELSE LET req == [a EXCEPT !.sub[pub] = "requested"] IN
         IF async_subscribe
         THEN [a |-> req, suspended |-> TRUE]
         ELSE [a |-> RegisterOnSubscribed(req, pub), suspended |-> FALSE]

\* the publications a _sweep_and_subscribe_all call finds, lines 215-223
RoomPubs ==
    SelectSeq(Pubs, LAMBDA q : q \in published /\ PubOwner[q] \in present)

\* what a sweep has left to handle once _subscribe_pub has returned for the
\* first of its publications: the exception of set_subscribed is caught in
\* _subscribe_pub (lines 203-205), so the loops of lines 220-224 go on
RestAlt(todo, raised) == IF raised THEN <<>> ELSE Tail(todo)
Rest(todo, raised) == Tail(todo)

\* the loop of _sweep_and_subscribe_all, lines 220-224, up to its next
\* suspension or its return
RECURSIVE RunSweep(_, _, _)
RunSweep(a, sw, raising) ==
    IF sw.todo = <<>>
    THEN [a |-> a, sw |-> sw]
    ELSE LET r == SubscribePub(a, Head(sw.todo), sw.awaiting, raising) IN
         IF r.suspended
         THEN [a |-> r.a, sw |-> [sw EXCEPT !.awaiting = TRUE]]
         ELSE RunSweep(r.a,
                       [sw EXCEPT !.todo = Rest(@, Head(@) \in raising),
                                  !.awaiting = FALSE],
                       raising)

\* the publications for which a sweep may call set_subscribed, and the one
\* whose set_subscribed it is awaiting
MayRequest(sw) ==
    {q \in AudioPubs : /\ \E i \in 1..Len(sw.todo) : sw.todo[i] = q
                        /\ \/ sub_state[q] # "subscribed"
                           \/ sw.awaiting /\ sw.todo[1] = q}

\* ------------------------------------------------------------- the room
\* the room is up and run_ai_agent has not left it
RoomOpen == ~reported /\ mpc \notin {"returned", "raised"}

\* a participant joins with its video and some of its audio tracks already
\* published; the room may deliver "participant joined", whose callback creates
\* a sweep task (line 235)
ParticipantJoinsOf(who) ==
    /\ RoomOpen
    /\ \E p \in who \ present :
       \E ps \in SUBSET {q \in AudioPubs : PubOwner[q] = p} :
       \E notify \in BOOLEAN :
         /\ present' = present \cup {p}
         /\ published' = published \cup ps \cup {q \in PubSet \ AudioPubs : PubOwner[q] = p}
         /\ notify => BagCardinality(tasks) < MaxTasks
         /\ tasks' = IF notify /\ "participant_connected" \in handlers
                     THEN tasks (+) SetToBag({[kind |-> "join", todo |-> <<>>, awaiting |-> FALSE]})
                     ELSE tasks
    /\ UNCHANGED <<sub_state, callbacks, connected, reported, has_on_subscribed,
                   async_subscribe, mainVars, startVars, bgVars, pc>>
    /\ UNCHANGED nonAgentVars

ParticipantJoins == ParticipantJoinsOf(ParticipantSet)

\* a participant publishes an audio track; the room may deliver "publication
\* announced", whose callback creates a _subscribe_pub task (line 228)
TrackPublished ==
    /\ RoomOpen
    /\ \E q \in AudioPubs \ published :
       \E notify \in BOOLEAN :
         /\ PubOwner[q] \in present
         /\ published' = published \cup {q}
         /\ notify => BagCardinality(tasks) < MaxTasks
         /\ tasks' = IF notify /\ "track_published" \in handlers
                     THEN tasks (+) SetToBag({Sweep(<<q>>)})
                     ELSE tasks
    /\ UNCHANGED <<present, sub_state, callbacks, connected, reported,
                   has_on_subscribed, async_subscribe, mainVars, startVars,
                   bgVars, pc>>
    /\ UNCHANGED nonAgentVars

\* the audio track of a publication resolves (requested, or subscribed by the
\* room itself); every on_subscribed callback creates a _start_if_audio_track
\* task (line 208)
TrackResolves ==
    /\ connected
    /\ \E q \in published \cap AudioPubs :
         /\ sub_state[q] # "subscribed"
         /\ callbacks[q] > 0 => BagCardinality(tasks) < MaxTasks
         /\ sub_state' = [sub_state EXCEPT ![q] = "subscribed"]
         /\ tasks' = IF callbacks[q] > 0
                     THEN tasks (+) [t \in {[kind |-> "start", todo |-> <<q>>, awaiting |-> FALSE]}
                                       |-> callbacks[q]]
                     ELSE tasks
    /\ UNCHANGED <<present, published, callbacks, connected, reported,
                   has_on_subscribed, async_subscribe, mainVars, startVars,
                   bgVars, pc>>
    /\ UNCHANGED nonAgentVars

\* the room reports disconnection; the callback of line 260, if registered,
\* sets done
RoomDisconnects ==
    /\ connected
    /\ connected' = FALSE
    /\ reported' = TRUE
    /\ done' = IF "disconnected" \in handlers THEN TRUE ELSE done
    /\ UNCHANGED <<present, published, sub_state, callbacks, has_on_subscribed,
                   async_subscribe, mpc, boot_i, boot_sweeps, msweep, handlers,
                   greet_calls,
                   startVars, tasks, bgVars, pc>>
    /\ UNCHANGED nonAgentVars

\* ------------------------------------------------------- callback tasks
\* A task that is ready to run (just created by a callback) runs before any
\* coroutine that waits for a timer or for the room is resumed: the event loop
\* runs its ready queue in order, and a wake-up joins the queue at its end.
NoReadyTask == \A t \in BagToSet(tasks) : t.awaiting

\* a task created by a callback runs up to its next suspension:
\* _sweep_and_subscribe_all (line 235), _subscribe_pub (line 228) or
\* _start_if_audio_track (line 208)
TaskRuns ==
    /\ \E t \in BagToSet(tasks) :
         LET rest == tasks (-) SetToBag({t}) IN
         IF t.kind = "start"
         THEN /\ Store(StartIfAudioTrack(Acq, t.todo[1]))
              /\ tasks' = rest
         ELSE LET sw == IF t.kind = "join" THEN Sweep(RoomPubs) ELSE t IN
              \E raising \in SUBSET MayRequest(sw) :
                LET r == RunSweep(Acq, sw, raising)
                IN /\ Store(r.a)
                   /\ tasks' = IF r.sw.todo = <<>> THEN rest
                               ELSE rest (+) SetToBag({r.sw})
    /\ UNCHANGED <<present, published, connected, reported, has_on_subscribed,
                   async_subscribe, mainVars, bgVars>>
    /\ UNCHANGED nonAgentVars

\* ---------------------------------------------------------- run_ai_agent
\* the bootstrap loop is over (lines 240-244): the background sweeper task is
\* created (line 254) and the greeting is spoken (line 256)
EnterGreeting ==
    /\ mpc' = "greet"
    /\ bpc' = "ready"
    /\ greet_calls' = greet_calls + 1

\* the bootstrap loop from the sweep of line 241 on, up to the next suspension
BootstrapFrom(sw) ==
    \E raising \in SUBSET MayRequest(sw) :
      LET r == RunSweep(Acq, sw, raising) IN
      /\ Store(r.a)
      /\ msweep' = r.sw
      /\ IF r.sw.todo # <<>>
         THEN mpc' = "boot_sweep" /\ UNCHANGED <<bpc, greet_calls>>
         ELSE IF r.a.started
         THEN EnterGreeting
         ELSE mpc' = "boot_sleep" /\ UNCHANGED <<bpc, greet_calls>>

\* one more iteration of the bootstrap loop: the sweep of line 241 is called
BootSweep ==
    /\ boot_sweeps' = boot_sweeps + 1
    /\ BootstrapFrom(Sweep(RoomPubs))

\* room.connect returns or raises (line 173); on return the room callbacks are
\* registered (lines 226-238) and the bootstrap loop starts
Connect ==
    /\ mpc = "connect"
    /\ \E ok \in BOOLEAN :
         IF ok
         THEN /\ connected' = TRUE
              /\ handlers' = {"track_published", "participant_connected"}
              /\ BootSweep
         ELSE /\ mpc' = "raised"
              /\ UNCHANGED <<connected, handlers, boot_sweeps, msweep, sub_state, callbacks,
                             startVars, pc, bpc, greet_calls>>
    /\ UNCHANGED <<present, published, reported, has_on_subscribed,
                   async_subscribe, boot_i, done, tasks, bg_i, bg_sweeps, bsweep,
                   warned>>
    /\ UNCHANGED nonAgentVars

\* the set_subscribed awaited by the sweep of the bootstrap loop returns
BootSweepResumes ==
    /\ mpc = "boot_sweep"
    /\ NoReadyTask
    /\ BootstrapFrom(msweep)
    /\ UNCHANGED <<present, published, connected, reported, has_on_subscribed,
                   async_subscribe, boot_i, boot_sweeps, handlers, done, tasks, bg_i,
                   bg_sweeps, bsweep,
                   warned>>
    /\ UNCHANGED nonAgentVars

\* asyncio.sleep(1.0) of the bootstrap loop returns: next iteration, or the loop
\* is over
BootSleepEnds ==
    /\ mpc = "boot_sleep"
    /\ NoReadyTask
    /\ boot_i' = boot_i + 1
    /\ IF boot_i + 1 < BootstrapSweeps
       THEN BootSweep
       ELSE /\ EnterGreeting
            /\ UNCHANGED <<boot_sweeps, msweep, sub_state, callbacks, startVars, pc>>
    /\ UNCHANGED <<present, published, connected, reported, has_on_subscribed,
                   async_subscribe, handlers, done, tasks, bg_i, bg_sweeps, bsweep,
                   warned>>
    /\ UNCHANGED nonAgentVars

\* speak(room, "Hello! ...") returns or raises (line 256); on return the
\* disconnection callback is registered and done is awaited (lines 258-263)
GreetingEnds ==
    /\ mpc = "greet"
    /\ NoReadyTask
    /\ \E ok \in BOOLEAN :
         IF ok
         THEN /\ handlers' = handlers \cup {"disconnected"}
              /\ mpc' = "wait"
         ELSE /\ mpc' = "raised"
              /\ UNCHANGED handlers
    /\ UNCHANGED <<roomVars, boot_i, boot_sweeps, msweep, done, greet_calls,
                   startVars, tasks,
                   bgVars, pc>>
    /\ UNCHANGED nonAgentVars

\* done.wait() returns (line 263); off_published() and off_participant() are
\* called (lines 264-265), either may raise, and room.disconnect is awaited
DoneWaitReturns ==
    /\ mpc = "wait"
    /\ NoReadyTask
    /\ done
    /\ \/ /\ handlers' = handlers \ {"track_published", "participant_connected"}
          /\ mpc' = "disconnect"
       \/ /\ handlers' \in {handlers, handlers \ {"track_published"}}
          /\ mpc' = "raised"
    /\ UNCHANGED <<roomVars, boot_i, boot_sweeps, msweep, done, greet_calls,
                   startVars, tasks,
                   bgVars, pc>>
    /\ UNCHANGED nonAgentVars

\* room.disconnect() returns or raises (line 266): run_ai_agent returns, or
\* ends with the exception
DisconnectReturns ==
    /\ mpc = "disconnect"
    /\ NoReadyTask
    /\ \E ok \in BOOLEAN :
         /\ mpc' = IF ok THEN "returned" ELSE "raised"
         /\ connected' = IF ok THEN FALSE ELSE connected
    /\ UNCHANGED <<present, published, sub_state, callbacks, reported,
                   has_on_subscribed, async_subscribe, boot_i, boot_sweeps, msweep,
                   handlers,
                   done, greet_calls, startVars, tasks, bgVars, pc>>
    /\ UNCHANGED nonAgentVars

\* ---------------------------------------------------- _background_sweeper
\* _background_sweeper from the sweep of line 250 on, up to the next suspension
BackgroundFrom(sw) ==
    \E raising \in SUBSET MayRequest(sw) :
      LET r == RunSweep(Acq, sw, raising) IN
      /\ Store(r.a)
      /\ bsweep' = r.sw
      /\ bpc' = IF r.sw.todo # <<>> THEN "sweep" ELSE "sleep"
      /\ UNCHANGED warned

\* "if not started.is_set()" of line 252
MayWarnAlt(is_set) == TRUE
MayWarn(is_set) == ~is_set

\* the head of the loop of _background_sweeper after i iterations, and its end
\* (lines 247-253)
BackgroundLoop(i) ==
    IF i = BackgroundSweeps
    THEN /\ bpc' = "done"
         /\ warned' = IF MayWarn(started) THEN warned + 1 ELSE warned
         /\ UNCHANGED <<bg_sweeps, bsweep, sub_state, callbacks, startVars, pc>>
    ELSE IF started
    THEN /\ bpc' = "done"
         /\ UNCHANGED <<warned, bg_sweeps, bsweep, sub_state, callbacks, startVars, pc>>
    ELSE /\ bg_sweeps' = bg_sweeps + 1
         /\ BackgroundFrom(Sweep(RoomPubs))

\* the task starts to run
BackgroundStarts ==
    /\ bpc = "ready"
    /\ BackgroundLoop(bg_i)
    /\ UNCHANGED <<present, published, connected, reported, has_on_subscribed,
                   async_subscribe, mainVars, tasks, bg_i>>
    /\ UNCHANGED nonAgentVars

\* the set_subscribed awaited by its sweep returns
BackgroundSweepResumes ==
    /\ bpc = "sweep"
    /\ NoReadyTask
    /\ BackgroundFrom(bsweep)
    /\ UNCHANGED <<present, published, connected, reported, has_on_subscribed,
                   async_subscribe, mainVars, tasks, bg_i, bg_sweeps>>
    /\ UNCHANGED nonAgentVars

\* its asyncio.sleep(1.0) returns
BackgroundSleepEnds ==
    /\ bpc = "sleep"
    /\ NoReadyTask
    /\ bg_i' = bg_i + 1
    /\ BackgroundLoop(bg_i + 1)
    /\ UNCHANGED <<present, published, connected, reported, has_on_subscribed,
                   async_subscribe, mainVars, tasks>>
    /\ UNCHANGED nonAgentVars

AgentStep ==
    \/ TaskRuns
    \/ Connect
    \/ BootSweepResumes
    \/ BootSleepEnds
    \/ GreetingEnds
    \/ DoneWaitReturns
    \/ DisconnectReturns
    \/ BackgroundStarts
    \/ BackgroundSweepResumes
    \/ BackgroundSleepEnds

\* ------------------------------------------ track acquisition, silent caller
InitTrack ==
    /\ AgentIdle
    /\ has_on_subscribed \in BOOLEAN
    /\ async_subscribe \in BOOLEAN
    /\ pc = "unstarted" /\ TurnLocals
    /\ GreetIdle /\ environ = RequiredEnv
    /\ SpeakIdle
    /\ NoFaults
    /\ WebIdle

\* the room stays up: done is never set, done.wait() never returns
NextTrack ==
    \/ ParticipantJoins
    \/ TrackPublished
    \/ TrackResolves
    \/ TaskRuns
    \/ Connect
    \/ BootSweepResumes
    \/ BootSleepEnds
    \/ GreetingEnds
    \/ BackgroundStarts
    \/ BackgroundSweepResumes
    \/ BackgroundSleepEnds

SpecTrack == InitTrack /\ [][NextTrack]_vars

\* ------------------------------------------- one sweep and its failures
\* The sweep of a "participant joined" callback (line 235), followed on its own
\* in a room that does not change, with the set_subscribed failures fixed
\* beforehand.

\* the set_subscribed calls that raise in the step the sweep makes next
Failing(sw) ==
    fail_call \cup (IF sw.awaiting THEN fail_await \cap {Head(sw.todo)} ELSE {})

\* run_ai_agent has connected to an empty room and sleeps in its bootstrap
\* loop; participants have joined since, some of their audio tracks were
\* subscribed by the room itself, and the last join was notified
InitSweep ==
    /\ present \in SUBSET ParticipantSet \ {{}}
    /\ published \in SUBSET {q \in PubSet : PubOwner[q] \in present}
    /\ \A q \in PubSet \ AudioPubs : PubOwner[q] \in present => q \in published
    /\ sub_state \in [PubSet -> {"no", "subscribed"}]
    /\ \A q \in PubSet : sub_state[q] = "subscribed" => q \in published \cap AudioPubs
    /\ callbacks = [p \in PubSet |-> 0]
    /\ connected = TRUE
    /\ reported = FALSE
    /\ has_on_subscribed \in BOOLEAN
    /\ async_subscribe \in BOOLEAN
    /\ mpc = "boot_sleep"
    /\ boot_i = 0
    /\ boot_sweeps = 1
    /\ msweep = Sweep(<<>>)
    /\ handlers = {"track_published", "participant_connected"}
    /\ done = FALSE
    /\ greet_calls = 0
    /\ started = FALSE
    /\ loop_tasks = 0
    /\ feeding = {}
    /\ tasks = SetToBag({[kind |-> "join", todo |-> <<>>, awaiting |-> FALSE]})
    /\ bpc = "none"
    /\ bg_i = 0
    /\ bg_sweeps = 0
    /\ bsweep = Sweep(<<>>)
    /\ warned = 0
    /\ pc = "unstarted" /\ TurnLocals
    /\ GreetIdle /\ environ = RequiredEnv
    /\ SpeakIdle
    /\ fail_call \in SUBSET AudioPubs
    /\ fail_await \in SUBSET AudioPubs
    /\ WebIdle

\* the sweep task runs up to its next suspension or its end (lines 214-224)
SweepTaskRuns ==
    /\ \E t \in BagToSet(tasks) :
         LET sw == IF t.kind = "join" THEN Sweep(RoomPubs) ELSE t
             r == RunSweep(Acq, sw, Failing(sw))
         IN /\ t.kind # "start"
            /\ Store(r.a)
            /\ tasks' = IF r.sw.todo = <<>> THEN EmptyBag ELSE SetToBag({r.sw})
    /\ UNCHANGED <<present, published, connected, reported, has_on_subscribed,
                   async_subscribe, mainVars, bgVars>>
    /\ UNCHANGED nonAgentVars

SpecSweep == InitSweep /\ [][SweepTaskRuns]_vars

\* --------------------------------------------------- the whole session
\* what the caller says in the sessions followed as a whole
CallTexts == { <<>>, <<" ","A","l","e","x","\n">>, <<"A","g","e","n","t","!">> }

\* a frame of the caller's track reaches the stream of the turn loop
CallerFrameArrives ==
    /\ connected
    /\ pc # "unstarted"
    /\ FrameArrivesOf(MaxCallFrames, {3 * StreamRate})

CallerTranscribeReturns == TranscribeReturnsOf(CallTexts)

\* the only remote participant is the SIP caller
SipCallerJoins == ParticipantJoinsOf({"sip"})

InitSession ==
    /\ AgentIdle
    /\ has_on_subscribed \in BOOLEAN
    /\ async_subscribe \in BOOLEAN
    /\ pc = "unstarted" /\ TurnLocals
    /\ GreetIdle /\ environ = RequiredEnv
    /\ SpeakIdle
    /\ NoFaults
    /\ WebIdle

LoopStep ==
    \/ NextFrame
    \/ StreamExhausted
    \/ CallerTranscribeReturns
    \/ TranscribeFails
    \/ ConverseReturns
    \/ ConverseFails
    \/ SpeakReturns
    \/ HandoffSpeakReturns
    \/ SpeakFails

NextSession ==
    \/ SipCallerJoins
    \/ TrackResolves
    \/ RoomDisconnects
    \/ CallerFrameArrives
    \/ StreamEnds
    \/ AgentStep
    \/ LoopStep

SpecSession == InitSession /\ [][NextSession]_vars

\* every coroutine that can run does run; the room and the caller owe nothing
SpecSessionFair == SpecSession /\ WF_vars(AgentStep) /\ WF_vars(LoopStep)

\* ================================================================== speak
\* the answers of client.audio.speech.create: the speech, a TypeError (the
\* client rejects a parameter), any other failure
SpeechOutcomes == {"ok", "TypeError", "error"}

\* "except TypeError" of line 53
RetryOnAlt(answer) == answer # "ok"
RetryOn(answer) == answer = "TypeError"

\* the sample rates of the decoded speech that are followed
SampleRates == {40, 50, 150, 275}

\* int(sr * 0.02)
SamplesPerChunk(rate) == (rate * 2) \div 100

\* len(data[i:i + samples_per_chunk])
ChunkLenAlt(i, n, k) == k
ChunkLen(i, n, k) == IF i >= n THEN 0 ELSE Min(i + k, n) - i

\* the head of the pacer loop with i = i at time t, lines 67-77: the next
\* chunk is given to source.capture_frame, or the loop is over
PacerFrom(i, t) ==
    LET len == ChunkLen(i, data_len, SamplesPerChunk(sr)) IN
    IF i < data_len /\ len # 0
    THEN /\ frames' = Append(frames, [first |-> i, samples_per_channel |-> len,
                                      at |-> t])
         /\ spk' = "capture"
    ELSE /\ spk' = "unpublish"
         /\ UNCHANGED frames

\* client.audio.speech.create(..., response_format="wav"), lines 46-53
SpeechCreate ==
    /\ spk = "tts"
    /\ \E answer \in SpeechOutcomes :
         /\ tts_calls' = Append(tts_calls, [response_format |-> "wav", answer |-> answer])
         /\ spk' = IF answer = "ok" THEN "publish"
                   ELSE IF RetryOn(answer) THEN "retry" ELSE "raised"
    /\ UNCHANGED <<sr, data_len, chunk_i, frames, now, agent_tracks>>
    /\ UNCHANGED nonSpeakVars

\* the retry without response_format, lines 54-58
SpeechCreateBare ==
    /\ spk = "retry"
    /\ \E answer \in SpeechOutcomes :
         /\ tts_calls' = Append(tts_calls, [response_format |-> "none", answer |-> answer])
         /\ spk' = IF answer = "ok" THEN "publish" ELSE "raised"
    /\ UNCHANGED <<sr, data_len, chunk_i, frames, now, agent_tracks>>
    /\ UNCHANGED nonSpeakVars

\* lines 60-77: the speech is decoded and the track published (either may
\* raise); the pacer loop starts with i = 0
PublishTrack ==
    /\ spk = "publish"
    /\ \E ok \in BOOLEAN :
         IF ok
         THEN /\ agent_tracks' = agent_tracks + 1
              /\ PacerFrom(0, now)
         ELSE /\ spk' = "raised"
              /\ UNCHANGED <<agent_tracks, frames>>
    /\ UNCHANGED <<tts_calls, sr, data_len, chunk_i, now>>
    /\ UNCHANGED nonSpeakVars

\* source.capture_frame returns or raises, line 77
CaptureFrameReturns ==
    /\ spk = "capture"
    /\ \E ok \in BOOLEAN : spk' = IF ok THEN "sleep" ELSE "raised"
    /\ UNCHANGED <<tts_calls, sr, data_len, chunk_i, frames, now, agent_tracks>>
    /\ UNCHANGED nonSpeakVars

\* asyncio.sleep(0.02) returns, lines 78-79, and the loop goes on
PacerSleepEnds ==
    /\ spk = "sleep"
    /\ now' = now + 20
    /\ chunk_i' = chunk_i + SamplesPerChunk(sr)
    /\ PacerFrom(chunk_i + SamplesPerChunk(sr), now + 20)
    /\ UNCHANGED <<tts_calls, sr, data_len, agent_tracks>>
    /\ UNCHANGED nonSpeakVars

\* lines 81-86: unpublish_track; what it raises is swallowed
UnpublishTrack ==
    /\ spk = "unpublish"
    /\ \E ok \in BOOLEAN : agent_tracks' = IF ok THEN agent_tracks - 1 ELSE agent_tracks
    /\ spk' = "returned"
    /\ UNCHANGED <<tts_calls, sr, data_len, chunk_i, frames, now>>
    /\ UNCHANGED nonSpeakVars

\* speak is called; the speech the service will answer with has data_len
\* samples per channel at rate sr
InitSpeak ==
    /\ spk = "tts"
    /\ sr \in SampleRates
    /\ data_len \in 0..MaxSamples
    /\ SpeakLocals
    /\ TurnIdle
    /\ GreetIdle /\ environ = RequiredEnv
    /\ AgentIdle /\ has_on_subscribed = TRUE /\ async_subscribe = FALSE
    /\ NoFaults
    /\ WebIdle

NextSpeak ==
    \/ SpeechCreate
    \/ SpeechCreateBare
    \/ PublishTrack
    \/ CaptureFrameReturns
    \/ PacerSleepEnds
    \/ UnpublishTrack

SpecSpeak == InitSpeak /\ [][NextSpeak]_vars

\* ======================================================== livekit_webhook
\* The payloads followed carry the room name and the participant at top level,
\* as the LiveKit server sends them. Nothing is awaited between the parsing of
\* the body and create_dispatch, and nothing is done after it for a
\* participant_joined event, so a handler is one step, plus the return of
\* create_dispatch when it has called it.

\* the status of the room's Call row once the handler is through: upsert_call
\* (lines 130-152, 174-175), the cleanup (199-204), the SIP leg leaving
\* (206-224)
CallAfter(evt, kind, status) ==
    LET upserted == IF evt \in {"room_started", "participant_joined", "ingress_started"}
                    THEN "ringing"
                    ELSE status
        cleaned == IF evt \in {"room_finished", "ingress_ended"} /\ upserted # "none"
                   THEN "ended"
                   ELSE upserted
    IN IF /\ evt \in {"participant_left", "track_unpublished"}
          /\ kind = "SIP"
          /\ cleaned \notin {"none", "ended"}
       THEN "ended"
       ELSE cleaned

\* "if evt == 'participant_joined' and kind == 'SIP' and room", line 178
RequestsDispatch(evt, kind) == evt = "participant_joined" /\ kind = "SIP"

\* livekit_webhook(request), lines 110-226, for the event evt of room rm about
\* a participant of the given kind, up to its return or to await
\* create_dispatch (line 182)
LivekitWebhook(evt, rm, kind) ==
    /\ calls' = [calls EXCEPT ![rm] = CallAfter(evt, kind, @)]
    /\ IF RequestsDispatch(evt, kind)
       THEN /\ dispatches[rm] < MaxDispatches
            /\ awaiting_dispatch < MaxHandlers
            /\ dispatches' = [dispatches EXCEPT ![rm] = @ + 1]
            /\ awaiting_dispatch' = awaiting_dispatch + 1
       ELSE UNCHANGED <<dispatches, awaiting_dispatch>>
    /\ active_ai_tasks' = IF evt \in {"room_finished", "ingress_ended"}
                          THEN active_ai_tasks \ {rm}
                          ELSE active_ai_tasks
    /\ UNCHANGED nonWebVars

\* create_dispatch returns or raises (lines 182-196): the handler closes the
\* client or prints the error, and returns
DispatchReturns ==
    /\ awaiting_dispatch > 0
    /\ awaiting_dispatch' = awaiting_dispatch - 1
    /\ UNCHANGED <<calls, active_ai_tasks, dispatches, lk_rooms, sip_legs>>
    /\ UNCHANGED nonWebVars

\* the server opens a room and sends room_started
OnRoomStarted ==
    \E rm \in Rooms :
      /\ lk_rooms[rm] = "none"
      /\ lk_rooms' = [lk_rooms EXCEPT ![rm] = "live"]
      /\ UNCHANGED sip_legs
      /\ LivekitWebhook("room_started", rm, "none")

\* a participant joins a live room (a SIP leg, a browser, the agent) and the
\* server sends participant_joined
OnParticipantJoined ==
    \E rm \in Rooms :
    \E kind \in {"SIP", "STANDARD", "AGENT"} :
      /\ lk_rooms[rm] = "live"
      /\ kind = "SIP" => sip_legs[rm] < MaxSipLegs
      /\ sip_legs' = IF kind = "SIP" THEN [sip_legs EXCEPT ![rm] = @ + 1] ELSE sip_legs
      /\ UNCHANGED lk_rooms
      /\ LivekitWebhook("participant_joined", rm, kind)

\* the server delivers the participant_joined of a SIP leg once more (its
\* first delivery timed out)
OnJoinRedelivered ==
    \E rm \in Rooms :
      /\ lk_rooms[rm] = "live"
      /\ sip_legs[rm] > 0
      /\ UNCHANGED <<lk_rooms, sip_legs>>
      /\ LivekitWebhook("participant_joined", rm, "SIP")

\* a SIP leg leaves and the server sends participant_left
OnParticipantLeft ==
    \E rm \in Rooms :
      /\ lk_rooms[rm] = "live"
      /\ sip_legs[rm] > 0
      /\ sip_legs' = [sip_legs EXCEPT ![rm] = @ - 1]
      /\ UNCHANGED lk_rooms
      /\ LivekitWebhook("participant_left", rm, "SIP")

\* the server closes the room and sends room_finished
OnRoomFinished ==
    \E rm \in Rooms :
      /\ lk_rooms[rm] = "live"
      /\ lk_rooms' = [lk_rooms EXCEPT ![rm] = "finished"]
      /\ sip_legs' = [sip_legs EXCEPT ![rm] = 0]
      /\ LivekitWebhook("room_finished", rm, "none")

InitWebhook ==
    /\ WebIdle
    /\ NoFaults
    /\ TurnIdle
    /\ GreetIdle /\ environ = RequiredEnv
    /\ AgentIdle /\ has_on_subscribed = TRUE /\ async_subscribe = FALSE
    /\ SpeakIdle

NextWebhook ==
    \/ OnRoomStarted
    \/ OnParticipantJoined
    \/ OnJoinRedelivered
    \/ OnParticipantLeft
    \/ OnRoomFinished
    \/ DispatchReturns

SpecWebhook == InitWebhook /\ [][NextWebhook]_vars

\* ------------------------------------------------------ claims, SpecTurn
\* frames the loop has taken from the stream
Consumed == delivered - Len(inbound)
Processing == {"transcribe", "converse", "speak", "handoff_speak"}

\* C1 as stated: once the consumed frames sum to total_ms >= 3000, exactly
\* floor(total_ms / 3000) windows have been handed to transcription, none empty.
C1_ExactlyFloorWindows ==
    /\ total_ms >= WindowMs => Len(handed) = total_ms \div WindowMs
    /\ \A i \in 1..Len(handed) : handed[i] # <<>>

\* C1 amended: the part of a frame that overshoots the window is dropped when
\* window_ms is reset, so at most floor(total_ms / 3000) windows are handed to
\* transcription, exactly that many when every window closed on 3000 ms
\* exactly, and no window handed off is empty.
C1_AtMostFloorWindows ==
    /\ Len(handed) <= total_ms \div WindowMs
    /\ exact => Len(handed) = total_ms \div WindowMs
    /\ \A i \in 1..Len(handed) : handed[i] # <<>>

C1_Witness ==
    /\ Len(handed) = 2 /\ exact /\ total_ms >= 2 * WindowMs
    /\ Len(handed[2]) >= 2

\* C4 as stated: a failing transcription, reply or synthesis call does not end
\* the loop: it stays running with its stream open.
C4_FailureKeepsListening ==
    failed => (outcome = "running" /\ pc # "done" /\ ~closed)

\* the text has a keyword as a case-insensitive substring
MentionsKeyword(t) ==
    \E i \in 1..Len(t) : \E j \in i..Len(t) : StrLower(SubSeq(t, i, j)) \in Keywords

\* the loop has taken the handoff path
HandedOff == pc \in {"handoff_speak", "done"} /\ MentionsKeyword(text)

\* transcribe_pcm_chunk has just returned (it did not raise)
TranscribeReturned == pc = "transcribe" /\ pc' # "transcribe" /\ ~failed'

\* C5: a transcribed text that has agent, human, representative or operator as
\* a case-insensitive substring makes the loop speak the handoff acknowledgment,
\* generate no reply and append nothing to the transcript; from then on the loop
\* consumes no frame, transcribes no window and speaks nothing more.
C5_KeywordHandoffIsTerminal ==
    /\ [][(TranscribeReturned /\ MentionsKeyword(text')) =>
            /\ pc' = "handoff_speak"
            /\ spoken' = Append(spoken, HandoffAck)
            /\ llm_calls' = llm_calls
            /\ history' = history]_vars
    /\ [][HandedOff =>
            /\ HandedOff'
            /\ Consumed' = Consumed
            /\ handed' = handed
            /\ spoken' = spoken
            /\ llm_calls' = llm_calls
            /\ history' = history]_vars

C5_Witness ==
    /\ pc = "done" /\ outcome = "returned"
    /\ text = <<"h","u","m","a","n","o","i","d">>
    /\ spoken = <<HandoffAck>>
    /\ inbound # <<>>

\* C6: an empty transcription leaves the transcript unchanged, calls neither the
\* reply service nor speak, and puts the loop back on the next frame.
C6_EmptyTextSkipsTurn ==
    [][(TranscribeReturned /\ text' = <<>>) =>
         /\ pc' = "next"
         /\ history' = history
         /\ llm_calls' = llm_calls
         /\ spoken' = spoken]_vars

C6_Witness ==
    /\ pc = "next" /\ text = <<>> /\ completed = 2 /\ Len(handed) = 2
    /\ history = <<>> /\ llm_calls = <<>> /\ spoken = <<>>

\* C7 as stated: the user turn u is appended before the reply service is
\* invoked, so while the reply is awaited the transcript ends with user u.
C7_UserTurnAppendedBeforeReply ==
    pc = "converse" => (history # <<>> /\ history[Len(history)] = Turn("user", text))

\* the transcript the calls of converse and speak account for
TranscriptOfCalls ==
    \A i \in 1..(Len(history) \div 2) :
        /\ history[2 * i - 1] = Turn("user", llm_calls[i].prompt)
        /\ history[2 * i].role = "assistant"
        /\ llm_calls[i].history = SubSeq(history, 1, 2 * (i - 1))

\* C7 amended: for a non-empty, non-handoff utterance u the reply service is
\* invoked with the transcript of all earlier turns and u as the new utterance;
\* when it returns r, user u and assistant r are appended together and r is
\* spoken; the transcript is [user u1, assistant r1, ..., user uk, assistant rk]
\* and no earlier entry is ever modified or removed.
C7_TranscriptAppendOnly ==
    /\ [](/\ TranscriptOfCalls
          /\ Len(history) \in {2 * Len(llm_calls), 2 * (Len(llm_calls) - 1)}
          /\ pc = "converse" =>
                /\ Len(history) = 2 * (Len(llm_calls) - 1)
                /\ llm_calls[Len(llm_calls)] = [prompt |-> text, history |-> history]
          /\ pc = "speak" =>
                /\ Len(history) = 2 * Len(llm_calls)
                /\ history[Len(history)].content = spoken[Len(spoken)])
    /\ [][\/ history' = history
          \/ /\ pc = "converse"
             /\ \E r \in Replies :
                  /\ history' = history \o <<Turn("user", text), Turn("assistant", r)>>
                  /\ spoken' = Append(spoken, r)]_vars

C7_Witness ==
    /\ Len(history) = 4 /\ pc = "speak"
    /\ history[1].content = <<"A","l","e","x">>
    /\ history[2].content # history[4].content

\* C8: at most one transcribe/reply/speak cycle is running; window n+1 is handed
\* to transcription only when the cycles of windows 1..n have ended.
C8_StrictlySequential ==
    /\ Cardinality(inflight) <= 1
    /\ pc \in Processing => (inflight = {Len(handed)} /\ completed = Len(handed) - 1)
    /\ pc \notin Processing => (inflight = {} /\ completed = Len(handed))

C8_Witness ==
    /\ pc = "speak" /\ Len(handed) = 2 /\ completed = 1
    /\ Len(inbound) >= 1

\* ----------------------------------------------------- claims, SpecTrack
\* C3: under any interleaving of sweeps, callback tasks and track resolutions
\* at most one stt_turn_loop task is ever created: exactly one once started is
\* set, for one publication, and none before.
C3_AtMostOneTurnLoop ==
    /\ loop_tasks = (IF started THEN 1 ELSE 0)
    /\ Cardinality(feeding) = loop_tasks

\* two audio tracks have resolved; one started the loop, the callback task of
\* the other is still to run
C3_Witness ==
    /\ started /\ loop_tasks = 1
    /\ \A q \in AudioPubs : sub_state[q] = "subscribed"
    /\ \E t \in BagToSet(tasks) : t.kind = "start" /\ t.todo[1] \notin feeding

\* ----------------------------------------------- claims, SpecSessionFair
\* run_ai_agent has unregistered its room callbacks, left the room and returned
TornDown ==
    /\ mpc = "returned"
    /\ ~connected
    /\ handlers \cap {"track_published", "participant_connected"} = {}

\* C9 as stated: once the room has reported disconnection, run_ai_agent
\* eventually unregisters its callbacks, disconnects and returns.
C9_DisconnectionLeadsToTeardown == reported ~> TornDown

\* the turn loop has ended on the handoff path
HandoffEnded == pc = "done" /\ outcome = "returned" /\ MentionsKeyword(text)

\* C10 as stated: once the handoff path has ended the turn loop, the session
\* tears down without waiting for the room to report disconnection.
C10_HandoffLeadsToTeardown == (HandoffEnded /\ closed) ~> TornDown

\* ----------------------------------------------------- claims, SpecSpeak
Ceil(a, b) == (a + b - 1) \div b

\* the pacer loop of this call is over
PacerDone == spk \in {"unpublish", "returned"}

RECURSIVE SumSamples(_)
SumSamples(fs) ==
    IF fs = <<>> THEN 0 ELSE Head(fs).samples_per_channel + SumSamples(Tail(fs))

\* C15: with samples_per_chunk = int(sr * 0.02) >= 1 the pacer hands exactly
\* ceil(len(data) / samples_per_chunk) frames to the transport, which carry all
\* the samples, and with every sleep lasting 20 ms the last frame is handed
\* (count - 1) * 20 ms after the first. (With samples_per_chunk = 0 there is no
\* chunk count to speak of: no frame is handed.)
C15_PacerChunkCount ==
    LET k == SamplesPerChunk(sr)
        n == Len(frames)
    IN /\ k > 0 => n <= Ceil(data_len, k)
       /\ (PacerDone /\ k > 0) =>
             /\ n = Ceil(data_len, k)
             /\ SumSamples(frames) = data_len
             /\ n > 0 => frames[n].at - frames[1].at = (n - 1) * 20
       /\ k = 0 => n = 0

\* 7 samples in chunks of 5: two frames, the second one partial
C15_Witness ==
    /\ spk = "returned"
    /\ SamplesPerChunk(sr) = 5 /\ data_len = 7
    /\ Len(frames) = 2 /\ frames[2].samples_per_channel = 2
    /\ frames[2].at = 20

\* C18: speak calls the synthesis service at most twice: first with
\* response_format="wav"; only when that call raises TypeError, once more
\* without response_format; a failure of the retry, or any other failure of the
\* first call, leaves speak with no further call.
C18_AtMostOneRetry ==
    LET n == Len(tts_calls) IN
    /\ n <= 2
    /\ spk # "tts" => n >= 1
    /\ n >= 1 => tts_calls[1].response_format = "wav"
    /\ (n = 1 /\ tts_calls[1].answer = "TypeError") => spk = "retry"
    /\ (n >= 1 /\ tts_calls[1].answer = "error") => (n = 1 /\ spk = "raised")
    /\ n = 2 => /\ tts_calls[1].answer = "TypeError"
                /\ tts_calls[2].response_format = "none"
                /\ tts_calls[2].answer # "ok" => spk = "raised"

\* the retry was rejected too
C18_Witness ==
    /\ Len(tts_calls) = 2
    /\ tts_calls[2].answer = "TypeError"
    /\ spk = "raised"

\* ---------------------------------------------------- claims, SpecSession
\* this step begins a sweep of _background_sweeper (line 250)
BackgroundSweepBegins == bg_sweeps' = bg_sweeps + 1

\* this step begins a sweep of the bootstrap loop (line 241)
BootSweepBegins == boot_sweeps' = boot_sweeps + 1

\* C11 as stated, for the background sweep loop: once the room has reported
\* disconnection, _background_sweeper performs no further sweep.
C11_NoSweepAfterDisconnection == [][reported => ~BackgroundSweepBegins]_vars

\* --------------------------------------------------- claims, SpecAcquire
\* track acquisition when the SIP caller is the only remote participant
NextAcquire ==
    \/ SipCallerJoins
    \/ TrackPublished
    \/ TrackResolves
    \/ TaskRuns
    \/ Connect
    \/ BootSweepResumes
    \/ BootSleepEnds
    \/ GreetingEnds
    \/ BackgroundStarts
    \/ BackgroundSweepResumes
    \/ BackgroundSleepEnds

SpecAcquire == InitTrack /\ [][NextAcquire]_vars

\* every coroutine that can run does run, and the room resolves the tracks of
\* the publications present
SpecAcquireFair == SpecAcquire /\ WF_vars(AgentStep) /\ WF_vars(TrackResolves)

\* C12 as stated: when a sweep or handler has found a remote audio publication
\* and its subscription request went through, the pipeline is eventually
\* started.
C12_RequestedLeadsToStarted ==
    (\E q \in AudioPubs : sub_state[q] = "requested") ~> started

\* ------------------------------------------------------ claims, SpecTrack
\* the budget of timer-driven sweeps, and the warning when it is used up
SweepBudget ==
    /\ [](/\ boot_sweeps <= 5
          /\ bg_sweeps <= 20
          /\ warned <= 1
          /\ warned = 1 => (bg_sweeps = 20 /\ bpc = "done"))
    /\ [][(bpc # "done" /\ bpc' = "done" /\ ~started) =>
             (warned' = 1 /\ bg_sweeps = 20)]_vars
    /\ [][warned' # warned =>
             /\ ~started
             /\ connected /\ connected'
             /\ mpc' = mpc]_vars

\* C13 as stated: at most 5 bootstrap and 20 background sweeps, no timer-driven
\* sweep once started is set, and exactly one warning, which leaves the session
\* connected, when started is still unset after the whole budget.
C13_NoTimerSweepOnceStarted ==
    /\ SweepBudget
    /\ [][(BootSweepBegins \/ BackgroundSweepBegins) => ~started]_vars

\* C13 amended: at most 5 bootstrap and 20 background sweeps; _background_sweeper
\* never sweeps once started is set; the bootstrap loop tests started only after
\* a sweep, so when started is set during its sleep it sweeps once more and then
\* stops (it sleeps again only with started unset); exactly one warning, which
\* leaves the session connected, when started is still unset after the budget.
C13_BoundedSweeps ==
    /\ SweepBudget
    /\ [][BackgroundSweepBegins => ~started]_vars
    /\ [][(BootSweepBegins /\ started) => mpc = "boot_sleep"]_vars
    /\ [][(mpc' = "boot_sleep" /\ (BootSweepBegins \/ mpc = "boot_sweep")) =>
             ~started']_vars

\* the whole budget was used and the warning printed; run_ai_agent waits
C13_Witness ==
    /\ warned = 1 /\ ~started
    /\ boot_sweeps = 5 /\ bg_sweeps = 20
    /\ connected /\ mpc = "wait"

\* C14 as stated: once started is set, no sweep or handler requests the
\* subscription of another publication, registers an on_subscribed callback for
\* it or starts a pipeline from it.
C14_OthersIgnoredOnceStarted ==
    [][started =>
         /\ \A q \in PubSet :
              /\ sub_state'[q] = "requested" => sub_state[q] = "requested"
              /\ callbacks'[q] = callbacks[q]
         /\ feeding' = feeding]_vars

\* C16 as stated, for the teardown of run_ai_agent: a failure while the
\* callbacks are unregistered or the room is left does not propagate, i.e.
\* run_ai_agent does not end with an exception once done.wait() is reached.
C16_TeardownNeverThrows ==
    [][(mpc \in {"wait", "disconnect"}) => (mpc' # "raised")]_vars

\* C17: a set_subscribed failure is confined to its publication. When a sweep
\* has ended, every audio publication of every participant in the room that
\* was not yet subscribed and whose request did not fail has been requested
\* (and, where the library offers on_subscribed and the request went through,
\* has its callback registered), and a publication whose request failed when
\* called was left as it was, with no callback; the sweep itself always ends
\* by running out of publications, never by the exception.
C17_FailureConfinedToPublication ==
    tasks = EmptyBag =>
      \A q \in AudioPubs :
        (q \in published /\ PubOwner[q] \in present) =>
          /\ sub_state[q] = "no" => q \in fail_call
          /\ q \in fail_call => sub_state[q] # "requested" /\ callbacks[q] = 0
          /\ (/\ sub_state[q] = "requested"
              /\ has_on_subscribed
              /\ ~(async_subscribe /\ q \in fail_await)) => callbacks[q] = 1

\* the request for a1 (the SIP caller's) failed and the sweep went on to
\* request a2, of the other participant
C17_Witness ==
    /\ tasks = EmptyBag
    /\ "a1" \in fail_call
    /\ "a1" \in published
    /\ sub_state["a1"] = "no"
    /\ sub_state["a2"] = "requested"

\* C19: the windows partition the inbound stream. The buffers handed to
\* transcription are non-empty runs of consecutive frames, each starting right
\* after the end of the one before; the buffer holds either the window just
\* handed off (until the transcription returns) or exactly the frames consumed
\* since; the frames queued meanwhile follow in order, none lost; the buffer
\* is cleared when the transcription returns, before any frame is appended;
\* and the rate and channel count passed along are those of the first frame
\* and never change.
C19_WindowsPartitionStream ==
    /\ [](LET n == Len(handed)
              EndOf(w) == IF w = 0 THEN 0 ELSE handed[w][Len(handed[w])]
              IsRun(b, first) == \A k \in 1..Len(b) : b[k] = first + k - 1
          IN /\ \A w \in 1..n : handed[w] # <<>> /\ IsRun(handed[w], EndOf(w - 1) + 1)
             /\ IF n > 0 /\ pcm_buf = handed[n]
                THEN (pc = "transcribe" \/ outcome = "raised") /\ EndOf(n) = Consumed
                ELSE /\ pc # "transcribe"
                     /\ IsRun(pcm_buf, EndOf(n) + 1)
                     /\ EndOf(n) + Len(pcm_buf) = Consumed
             /\ \A k \in 1..Len(inbound) : inbound[k].id = Consumed + k
             /\ n > 0 => sample_rate = Some(StreamRate) /\ channels = Some(StreamChannels))
    /\ [][/\ sample_rate # Unset => sample_rate' = sample_rate /\ channels' = channels
          /\ (pc = "transcribe" /\ pc' \notin {"transcribe", "done"}) => pcm_buf' = <<>>
          /\ pcm_buf' # pcm_buf => (pcm_buf' = <<>> \/ pc = "next")]_vars

\* two windows were handed off, the second of several frames, and a frame
\* has arrived while its transcription is outstanding
C19_Witness ==
    /\ pc = "transcribe"
    /\ Len(handed) = 2
    /\ Len(handed[2]) >= 2
    /\ inbound # <<>>

\* C20 as stated: at most one utterance is played into the room at a time;
\* the greeting playback of run_ai_agent (line 256) and a reply or handoff
\* playback of the turn loop (lines 145, 151) are never in progress together.
C20_PlaybacksNeverOverlap ==
    ~(mpc = "greet" /\ pc \in {"speak", "handoff_speak"})

\* C21 as stated: whatever the sample rate, the frames handed to the transport
\* are consecutive chunks of the decoded samples, from the first sample to the
\* last; every frame but the last holds samples_per_chunk samples, the last
\* the non-empty remainder; 20 ms of sleep follow every frame.
C21_PacerSendsAllSamples ==
    LET k == SamplesPerChunk(sr)
        n == Len(frames)
    IN /\ \A j \in 1..n :
            /\ frames[j].first = (j - 1) * k
            /\ frames[j].samples_per_channel > 0
            /\ frames[j].samples_per_channel = Min(k, data_len - frames[j].first)
            /\ frames[j].at = (j - 1) * 20
       /\ PacerDone =>
            /\ now = n * 20
            /\ IF n = 0 THEN data_len = 0
               ELSE frames[n].first + frames[n].samples_per_channel = data_len

\* C21 amended: the above holds when samples_per_chunk = int(sr * 0.02) is at
\* least 1, that is for sample rates of 50 Hz and more; at a lower rate
\* samples_per_chunk is 0, the first chunk is empty and the pacer ends at once
\* with no frame sent.
C21_PacerSendsAllSamplesInChunks ==
    LET k == SamplesPerChunk(sr)
        n == Len(frames)
    IN /\ k > 0 =>
            /\ \A j \in 1..n :
                 /\ frames[j].first = (j - 1) * k
                 /\ frames[j].samples_per_channel > 0
                 /\ frames[j].samples_per_channel = Min(k, data_len - frames[j].first)
                 /\ frames[j].at = (j - 1) * 20
            /\ PacerDone =>
                 /\ now = n * 20
                 /\ IF n = 0 THEN data_len = 0
                    ELSE frames[n].first + frames[n].samples_per_channel = data_len
       /\ k = 0 => n = 0 /\ now = 0

\* 7 samples in chunks of 3: three frames, the last one of a single sample,
\* each followed by its sleep
C21_Witness ==
    /\ spk = "returned"
    /\ SamplesPerChunk(sr) = 3 /\ data_len = 7
    /\ Len(frames) = 3 /\ frames[3].first = 6 /\ frames[3].samples_per_channel = 1
    /\ now = 60

\* C22 as stated: while a room is live, create_dispatch has been called for it
\* at most once, whatever webhook events have been delivered for it.
C22_AtMostOneDispatchPerRoom ==
    \A rm \in Rooms : lk_rooms[rm] = "live" => dispatches[rm] <= 1

====
